---- MODULE Spec2Model ----
(***************************************************************************)
(* A model of ictfd.py: one call of download_file(url, custom_chunk_size,  *)
(* custom_download_dir, timeout, retries), which creates the download      *)
(* directory, dispatches on the URL scheme and runs the retry loop of      *)
(* download_http_file.  The file system, the terminal (the sequence of     *)
(* printed messages), the HTTP server and the user's keyboard (prompt      *)
(* answers and Ctrl+C) are the environment.                                *)
(***************************************************************************)
EXTENDS Integers, Sequences, FiniteSets, TLC

\* ------------------------------------------------------------------ bounds
MaxBodyLen == 2       \* longest response body, in bytes
MaxRetries == 2       \* largest explicit retries argument
MaxCustomChunk == 2   \* largest explicit chunk size argument

\* ------------------------------------------------------- program constants
DEFAULT_CHUNK_SIZE == 8192
DEFAULT_TIMEOUT == 5

\* ------------------------------------------------------------- value sets
Bytes == {1, 2}
None == <<>>
Some(x) == <<x>>
IsNone(o) == o = <<>>
Val(o) == o[1]

\* A str value passed where a number is expected.
Text(s) == <<s, "str">>
IsText(o) == Len(o) = 2

\* The decimal strings the model types, and int() on them.
Digits == 0..9
IsNumeric(s) == \E n \in Digits : ToString(n) = s
ParseInt(s) == CHOOSE n \in Digits : ToString(n) = s

RECURSIVE SeqsUpTo(_, _)
SeqsUpTo(S, n) ==
    IF n = 0 THEN {<<>>}
    ELSE LET shorter == SeqsUpTo(S, n - 1)
         IN  shorter \cup {Append(s, b) : s \in {t \in shorter : Len(t) = n - 1}, b \in S}

Bodies == SeqsUpTo(Bytes, MaxBodyLen)

\* What the file holds before the call, when it exists.
OldData == <<2, 2, 1>>

Schemes == {"http", "HTTPS", "ftp"}
\* url.split("/")[-1]: "" when the URL ends with "/".
LastSegments == {"f", ""}
Urls == [scheme : Schemes, last : LastSegments]
Answers == {"y", "Y", "n", ""}

\* str.lower() on the strings the model uses.
Lower(s) ==
    CASE s = "HTTPS" -> "https"
      [] s = "Y" -> "y"
      [] OTHER -> s

\* Content-Length as the server may send it: absent (read as 0), the body's
\* length, or one less (a length that is not the decoded body's length).
ContentLengths(b) ==
    {0, Len(b)} \cup (IF Len(b) > 1 THEN {Len(b) - 1} ELSE {})

Msg(m, n) == [msg |-> m, n |-> n]

VARIABLES
    caller,             \* "cli" (the __main__ block) or "interactive" (interactive_mode)
    typed,              \* what the user gave per parameter: "" is no flag / an empty line
    timeout,            \* None, Some(n) or Text(s): the timeout argument of download_file
    url,                \* the url argument
    custom_chunk_size,  \* None or Some(n)
    retries,            \* None or Some(n): the retries argument of download_file
    fs0,                \* the file system as it was before the call
    pc,                 \* position of the call
    attempt,            \* the loop variable of "for attempt in range(retries)"
    failed_attempt,
    user_input,         \* the lowercased answer to the overwrite prompt, "unset" before it
    response,           \* "None", "ok" (status < 400) or "bad" (status >= 400)
    total_size,
    start_time_set,     \* whether the local start_time is bound
    downloaded_size,
    body,               \* the body of the current response
    stream,             \* the part of the body not yet delivered
    dirExists,          \* the download directory exists
    fileExists,         \* the destination file exists
    fileData,           \* its content
    log,                \* the messages printed so far
    netRequests,        \* number of requests.get calls made
    sleeps,             \* number of time.sleep(5) calls made
    prompts,            \* number of overwrite prompts shown
    opens,              \* number of times open(file_name, "wb") succeeded
    interruptedAt,      \* where Ctrl+C arrived, "" if it did not
    raised,             \* the exception that left download_file, "none" if none
    exc,                \* where the Exception download_file caught was raised, "" if none
    elapsed_time,       \* None before the first chunk, then Some(seconds)
    percentage,         \* None, or the fraction <<numerator, denominator>>
    estimated_time,     \* None, or the fraction <<numerator, denominator>>
    fmt_fn,             \* the formatting function being called, "" if none
    fmt_arg,            \* its argument
    fmt_out             \* what it returned: None, or Some(string)

vars == <<caller, typed, timeout, url, custom_chunk_size, retries, fs0, pc, attempt, failed_attempt,
          user_input, response, total_size, start_time_set, downloaded_size, body, stream,
          dirExists, fileExists, fileData, log, netRequests, sleeps, prompts,
          opens, interruptedAt, raised, exc, elapsed_time, percentage,
          estimated_time, fmt_fn, fmt_arg, fmt_out>>

reporter == <<fmt_fn, fmt_arg, fmt_out>>
progress == <<elapsed_time, percentage, estimated_time>>
inputs == <<caller, typed, timeout, url, custom_chunk_size, retries, fs0>>
locals == <<attempt, failed_attempt, response, total_size, start_time_set,
            downloaded_size, body, stream>>
disk == <<dirExists, fileExists, fileData>>
counters == <<netRequests, sleeps, prompts, opens>>

\* ------------------------------------------------------ download_file
\* chunk_size = custom_chunk_size if custom_chunk_size is not None else DEFAULT_CHUNK_SIZE
chunk_size == IF IsNone(custom_chunk_size) THEN DEFAULT_CHUNK_SIZE ELSE Val(custom_chunk_size)

\* retry_count = retries if retries is not None else 3
retry_count == IF IsNone(retries) THEN 3 ELSE Val(retries)

\* timeout_duration = timeout if timeout is not None else DEFAULT_TIMEOUT
timeout_duration == IF IsNone(timeout) THEN DEFAULT_TIMEOUT ELSE Val(timeout)

\* requests.get(url, stream=True, timeout=...) accepts a positive number; any
\* other timeout raises ValueError before anything is sent.
TimeoutValid == ~IsText(timeout) /\ timeout_duration > 0

\* __main__: a flag that is absent leaves None, a flag with a value gives
\* int(value).
CliArg(s) == IF s = "" THEN None ELSE Some(ParseInt(s))

\* interactive_mode, chunk size: custom_chunk_size starts as None and is set
\* only when the line is not empty and int() accepts it.
InteractiveChunk(s) == IF s # "" /\ IsNumeric(s) THEN Some(ParseInt(s)) ELSE None

\* interactive_mode, timeout and retries: the variable holds the line itself
\* and is replaced by int(line) only when the line is not empty and int()
\* accepts it.
InteractiveArg(s) == IF s # "" /\ IsNumeric(s) THEN Some(ParseInt(s)) ELSE Text(s)

Numerals(S) == {ToString(n) : n \in S}

\* What can be given on the command line (int() of anything else ends the
\* process before download_file is called).
CliTyped(timeouts) ==
    [chunk : {""} \cup Numerals(1..MaxCustomChunk),
     timeout : timeouts,
     retries : {""} \cup Numerals(0..MaxRetries)]

\* What can be typed at the prompts of interactive_mode.
InteractiveTyped ==
    [chunk : {"", "abc"} \cup Numerals(1..MaxCustomChunk),
     timeout : {"", "abc", "0", "7"},
     retries : {"", "abc"} \cup Numerals(0..MaxRetries)]

\* The call download_file(url, custom_chunk_size, custom_download_dir,
\* custom_timeout, custom_retries) each caller makes.
Launch(c, t) ==
    /\ caller = c
    /\ typed = t
    /\ custom_chunk_size = (IF c = "cli" THEN CliArg(t.chunk) ELSE InteractiveChunk(t.chunk))
    /\ timeout = (IF c = "cli" THEN CliArg(t.timeout) ELSE InteractiveArg(t.timeout))
    /\ retries = (IF c = "cli" THEN CliArg(t.retries) ELSE InteractiveArg(t.retries))

\* scheme = parsed_url.scheme.lower(); scheme in ["http", "https"]
SchemeSupported(u) == Lower(u.scheme) \in {"http", "https"}

\* file_name = os.path.join(download_dir, url.split("/")[-1]): with an empty
\* last segment the path is the download directory itself.
NameIsDirectory == url.last = ""

\* os.path.exists(file_name)
PathExists == IF NameIsDirectory THEN dirExists ELSE fileExists

\* The locals of download_http_file and the terminal before the call.
Fresh ==
    /\ attempt = 0
    /\ failed_attempt = FALSE
    /\ user_input = "unset"
    /\ response = "None"
    /\ total_size = 0
    /\ start_time_set = FALSE
    /\ downloaded_size = 0
    /\ body = <<>>
    /\ stream = <<>>
    /\ log = <<>>
    /\ netRequests = 0
    /\ sleeps = 0
    /\ prompts = 0
    /\ opens = 0
    /\ interruptedAt = ""
    /\ raised = "none"
    /\ exc = ""
    /\ elapsed_time = None
    /\ percentage = None
    /\ estimated_time = None

\* The state before the call, whoever makes it.
Before ==
    /\ url \in Urls
    /\ dirExists \in BOOLEAN
    /\ fileExists \in {f \in BOOLEAN : f => dirExists /\ url.last # ""}
    /\ fileData = IF fileExists THEN OldData ELSE <<>>
    /\ fs0 = [dir |-> dirExists, file |-> fileExists, data |-> fileData]
    /\ pc = "call"
    /\ Fresh
    /\ fmt_fn = ""
    /\ fmt_arg = None
    /\ fmt_out = None

\* A call from the command line, without the -t flag or with -t 0.
Init ==
    /\ \E t \in CliTyped({"", "0"}) : Launch("cli", t)
    /\ Before

\* A call from either caller, with every kind of input.
InitCallers ==
    /\ \/ \E t \in CliTyped({"", "0", "7"}) : Launch("cli", t)
       \/ \E t \in InteractiveTyped : Launch("interactive", t)
    /\ Before

\* An exception that is an Exception leaves download_http_file and is caught
\* by download_file: print(f"Error downloading file: {e}").
Fatal(sofar) ==
    /\ log' = Append(sofar, Msg("Error", 0))
    /\ pc' = "done"

\* Fatal, with the place the exception came from.
Raise(sofar, where) ==
    /\ Fatal(sofar)
    /\ exc' = where

\* create_downloads_folder(download_dir), called before the scheme is looked at.
CreateDownloadsFolder ==
    /\ pc = "call"
    /\ dirExists' = TRUE
    /\ pc' = "scheme"
    /\ UNCHANGED <<reporter, inputs, locals, user_input, fileExists, fileData, log,
                   counters, interruptedAt, raised, exc, progress>>

\* os.makedirs raises OSError (no permission, a file in the way).
MakedirsFails ==
    /\ pc = "call"
    /\ ~dirExists
    /\ Raise(log, "makedirs")
    /\ UNCHANGED <<reporter, inputs, locals, user_input, disk, counters, interruptedAt, raised, progress>>

\* if scheme in ["http", "https"]: download_http_file(...) else: print("Unsupported scheme")
DispatchScheme ==
    /\ pc = "scheme"
    /\ IF SchemeSupported(url)
       THEN /\ pc' = "loop"
            /\ log' = log
       ELSE /\ pc' = "done"
            /\ log' = Append(log, Msg("Unsupported", 0))
    /\ UNCHANGED <<reporter, inputs, locals, user_input, disk, counters, interruptedAt, raised, exc, progress>>

\* ------------------------------------------------- download_http_file
WillRetryOffByOne(a, n) == a < n

\* if attempt < retries - 1: retry after the backoff, else give up.
WillRetry(a, n) == a < n - 1

ShouldPromptEveryAttempt(exists, failed) == exists

\* if os.path.exists(file_name) and not failed_attempt
ShouldPrompt(exists, failed) == exists /\ ~failed

\* Response.__bool__ is Response.ok: a response with an error status is falsy,
\* and so is None.
ResponseTruthy(r) == r = "ok"

OpenedForAppend(old) == old

\* open(file_name, "wb") truncates: the content the file has once opened.
OpenedContent(old) == <<>>

DeclinedOnlyOnN(answer) == answer = "n"

\* if user_input != 'y'
Declined(answer) == answer # "y"

CountedAsRequested(chunk) == chunk_size

\* downloaded_size += len(chunk)
Counted(chunk) == Len(chunk)

\* The code after the loop: print("File downloaded successfully."), then
\* the total time, which reads start_time (unbound if no attempt bound it:
\* UnboundLocalError, an Exception).
AfterLoop ==
    IF start_time_set
    THEN /\ log' = Append(log, Msg("Success", 0))
         /\ pc' = "done"
         /\ exc' = exc
    ELSE Raise(Append(log, Msg("Success", 0)), "start_time")

\* for attempt in range(retries): the head of the loop and the existence check.
\* retries is whatever download_file passed on.
LoopNext ==
    /\ pc = "loop"
    /\ IF IsText(retries)
       THEN /\ Raise(log, "range")     \* range() of a str raises TypeError
            /\ prompts' = prompts
       ELSE IF attempt < retry_count
       THEN /\ IF ShouldPrompt(PathExists, failed_attempt)
               THEN pc' = "prompt" /\ prompts' = prompts + 1
               ELSE pc' = "connect" /\ prompts' = prompts
            /\ log' = log
            /\ exc' = exc
       ELSE /\ AfterLoop
            /\ prompts' = prompts
    /\ UNCHANGED <<reporter, inputs, locals, user_input, disk, netRequests, sleeps, opens,
                   interruptedAt, raised, progress>>

\* user_input = input(...).lower(); if user_input != 'y': canceled by user.
PromptAnswer ==
    /\ pc = "prompt"
    /\ \E a \in Answers :
        /\ user_input' = Lower(a)
        /\ IF Declined(user_input')
           THEN /\ log' = Append(log, Msg("CanceledByUser", 0))
                /\ pc' = "done"
           ELSE /\ log' = log
                /\ pc' = "connect"
    /\ UNCHANGED <<reporter, inputs, locals, disk, counters, interruptedAt, raised, exc, progress>>

\* except requests.exceptions.RequestException
TransportFailure ==
    /\ failed_attempt' = TRUE
    /\ LET log1 == Append(log, Msg("AttemptFailed", attempt + 1))
       IN  IF WillRetry(attempt, retry_count)
           THEN /\ log' = Append(log1, Msg("Retrying", 0))
                /\ sleeps' = sleeps + 1
                /\ pc' = "sleep"
           ELSE /\ log' = Append(log1, Msg("MaxRetries", 0))
                /\ sleeps' = sleeps
                /\ pc' = "done"

\* As RequestFails, had the file been opened before the request was made.
RequestFailsAfterOpen ==
    /\ pc = "connect"
    /\ TimeoutValid
    /\ netRequests' = netRequests + 1
    /\ fileExists' = TRUE
    /\ fileData' = <<>>
    /\ TransportFailure
    /\ UNCHANGED <<reporter, inputs, attempt, response, total_size, start_time_set,
                   downloaded_size, body, stream, user_input, dirExists, prompts,
                   opens, interruptedAt, raised, exc, progress>>

\* requests.get raises (connection error, timeout): response is not assigned.
RequestFails ==
    /\ pc = "connect"
    /\ TimeoutValid
    /\ netRequests' = netRequests + 1
    /\ TransportFailure
    /\ UNCHANGED <<reporter, inputs, attempt, response, total_size, start_time_set,
                   downloaded_size, body, stream, user_input, disk, prompts,
                   opens, interruptedAt, raised, exc, progress>>

\* requests.get returns an error status; response.raise_for_status() raises.
ResponseBadStatus ==
    /\ pc = "connect"
    /\ TimeoutValid
    /\ netRequests' = netRequests + 1
    /\ response' = "bad"
    /\ TransportFailure
    /\ UNCHANGED <<reporter, inputs, attempt, total_size, start_time_set,
                   downloaded_size, body, stream, user_input, disk, prompts,
                   opens, interruptedAt, raised, exc, progress>>

\* requests.get returns a success status; the headers are read and printed
\* (response.headers['content-type'] raises KeyError when absent), then
\* start_time and downloaded_size are set.
ResponseOk ==
    /\ pc = "connect"
    /\ TimeoutValid
    /\ netRequests' = netRequests + 1
    /\ response' = "ok"
    /\ \E b \in Bodies, hasContentType \in BOOLEAN : \E cl \in ContentLengths(b) :
        /\ total_size' = cl
        /\ IF hasContentType
           THEN /\ start_time_set' = TRUE
                /\ downloaded_size' = 0
                /\ body' = b
                /\ stream' = b
                /\ pc' = "open"
                /\ log' = log
                /\ exc' = exc
           ELSE /\ Raise(log, "content-type")
                /\ UNCHANGED <<start_time_set, downloaded_size, body, stream>>
    /\ UNCHANGED <<reporter, inputs, attempt, failed_attempt, user_input, disk, sleeps,
                   prompts, opens, interruptedAt, raised, progress>>

\* requests.get is given a timeout it rejects: ValueError, an Exception.
InvalidTimeout ==
    /\ pc = "connect"
    /\ ~TimeoutValid
    /\ Raise(log, "timeout")
    /\ UNCHANGED <<reporter, inputs, locals, user_input, disk, counters, interruptedAt, raised, progress>>

\* with open(file_name, "wb") as file: a directory cannot be opened.
OpenFile ==
    /\ pc = "open"
    /\ IF NameIsDirectory
       THEN /\ Raise(log, "open")
            /\ UNCHANGED <<disk, opens>>
       ELSE /\ fileExists' = TRUE
            /\ fileData' = OpenedContent(fileData)
            /\ opens' = opens + 1
            /\ pc' = "stream"
            /\ UNCHANGED <<dirExists, log, exc>>
    /\ UNCHANGED <<reporter, inputs, locals, user_input, netRequests, sleeps, prompts,
                   interruptedAt, raised, progress>>

\* As OpenFails, had the except clause of the retry loop caught OSError too.
OpenFailsRetried ==
    /\ pc = "open"
    /\ ~NameIsDirectory
    /\ exc' = "open"
    /\ TransportFailure
    /\ UNCHANGED <<reporter, inputs, attempt, response, total_size, start_time_set,
                   downloaded_size, body, stream, user_input, disk,
                   netRequests, prompts, opens, interruptedAt, raised, progress>>

\* open raises OSError (permission denied, read-only file system).
OpenFails ==
    /\ pc = "open"
    /\ ~NameIsDirectory
    /\ Raise(log, "open")
    /\ UNCHANGED <<reporter, inputs, locals, user_input, disk, counters, interruptedAt, raised, progress>>

Min(a, b) == IF a < b THEN a ELSE b

\* The clock readings the model draws for (datetime.now() - start_time): 0
\* (the clock has not advanced since start_time) or one second.
ElapsedTimes == {0, 1}

\* One non-empty chunk of response.iter_content(chunk_size): written, counted,
\* then the progress line is computed:
\*   download_speed = downloaded_size / elapsed_time
\*   percentage = (downloaded_size / total_size) * 100
\*   estimated_time = (total_size - downloaded_size) / download_speed if download_speed > 0 else 0
\* where a zero divisor raises ZeroDivisionError.  download_speed is positive,
\* the chunk being non-empty.
WriteChunk ==
    /\ pc = "stream"
    /\ stream # <<>>
    /\ LET n == Min(chunk_size, Len(stream))
           chunk == SubSeq(stream, 1, n)
       IN  /\ fileData' = fileData \o chunk
           /\ downloaded_size' = downloaded_size + Counted(chunk)
           /\ stream' = SubSeq(stream, n + 1, Len(stream))
    /\ \E elapsed \in ElapsedTimes :
        /\ elapsed_time' = Some(elapsed)
        /\ IF elapsed = 0 \/ total_size = 0
           THEN /\ Raise(log, "ZeroDivisionError")
                /\ UNCHANGED <<percentage, estimated_time>>
           ELSE /\ percentage' = <<downloaded_size' * 100, total_size>>
                /\ estimated_time' = <<(total_size - downloaded_size') * elapsed, downloaded_size'>>
                /\ pc' = "stream"
                /\ log' = log
                /\ exc' = exc
    /\ UNCHANGED <<reporter, inputs, attempt, failed_attempt, response, total_size,
                   start_time_set, body, user_input, dirExists, fileExists,
                   counters, interruptedAt, raised>>

\* file.write raises OSError (disk full).
WriteFails ==
    /\ pc = "stream"
    /\ stream # <<>>
    /\ Raise(log, "write")
    /\ UNCHANGED <<reporter, inputs, locals, user_input, disk, counters, interruptedAt, raised, progress>>

\* iter_content raises a RequestException (connection broken, read timeout).
StreamBreaks ==
    /\ pc = "stream"
    /\ TransportFailure
    /\ UNCHANGED <<reporter, inputs, attempt, response, total_size, start_time_set,
                   downloaded_size, body, stream, user_input, disk,
                   netRequests, prompts, opens, interruptedAt, raised, exc, progress>>

\* The body is exhausted: the with block closes the file, break leaves the loop.
BodyConsumed ==
    /\ pc = "stream"
    /\ stream = <<>>
    /\ AfterLoop
    /\ UNCHANGED <<reporter, inputs, locals, user_input, disk, counters, interruptedAt, raised, progress>>

\* time.sleep(5) returns; the loop goes to the next attempt.
BackoffElapsed ==
    /\ pc = "sleep"
    /\ attempt' = attempt + 1
    /\ pc' = "loop"
    /\ UNCHANGED <<reporter, inputs, failed_attempt, response, total_size, start_time_set,
                   downloaded_size, body, stream, user_input, disk, log,
                   counters, interruptedAt, raised, exc, progress>>

InterruptPoint(p) ==
    CASE p = "prompt" -> "prompt"
      [] p = "connect" -> "connect"
      [] p = "open" -> "response"
      [] p = "stream" -> "stream"

\* Ctrl+C inside the try block: except KeyboardInterrupt.
Interrupt ==
    /\ pc \in {"prompt", "connect", "open", "stream"}
    /\ interruptedAt' = InterruptPoint(pc)
    /\ LET log1 == Append(log, Msg("Canceled", 0))
       IN  IF ResponseTruthy(response) /\ PathExists
           THEN IF NameIsDirectory
                THEN /\ Raise(log1, "remove")   \* os.remove of a directory raises OSError
                     /\ UNCHANGED disk
                ELSE /\ fileExists' = FALSE
                     /\ fileData' = <<>>
                     /\ log' = Append(log1, Msg("IncompleteDeleted", 0))
                     /\ pc' = "done"
                     /\ UNCHANGED <<dirExists, exc>>
           ELSE /\ log' = Append(log1, Msg("IncompleteDeleted", 0))
                /\ pc' = "done"
                /\ UNCHANGED <<disk, exc>>
    /\ UNCHANGED <<reporter, inputs, locals, user_input, counters, raised, progress>>

\* Ctrl+C during time.sleep(5), which runs inside the except RequestException
\* handler: no except clause of this try statement applies, and download_file
\* catches Exception only, so KeyboardInterrupt leaves download_file.
InterruptSleep ==
    /\ pc = "sleep"
    /\ interruptedAt' = "sleep"
    /\ raised' = "KeyboardInterrupt"
    /\ pc' = "done"
    /\ UNCHANGED <<reporter, inputs, locals, user_input, disk, log, counters, exc, progress>>

Next ==
    \/ CreateDownloadsFolder
    \/ MakedirsFails
    \/ DispatchScheme
    \/ LoopNext
    \/ PromptAnswer
    \/ RequestFails
    \/ ResponseBadStatus
    \/ ResponseOk
    \/ InvalidTimeout
    \/ OpenFile
    \/ OpenFails
    \/ WriteChunk
    \/ WriteFails
    \/ StreamBreaks
    \/ BodyConsumed
    \/ BackoffElapsed
    \/ Interrupt
    \/ InterruptSleep

Spec == Init /\ [][Next]_vars

SpecCallers == InitCallers /\ [][Next]_vars

\* ------------------------------------------------ format_bytes, format_time
\* A size is the number m * 1024^e.  Dividing it by 1024.0 lowers e and is
\* exact in binary floating point, so the model's arithmetic is the code's.
MaxExp == 5
Mantissas == {0, 1, 2, 128, 384, 512, 1000, 1023, 1024, 1025, 1536, 2047, 10240, 1048575}
Sizes == [m : Mantissas, e : 0..MaxExp]

RECURSIVE Pow1024(_)
Pow1024(k) == IF k = 0 THEN 1 ELSE 1024 * Pow1024(k - 1)

\* size < 1024.0, for a mantissa below 1024^2.
Below1024(v) ==
    IF v.e >= 1 THEN v.m = 0
    ELSE IF v.e = 0 THEN v.m < 1024
    ELSE TRUE

\* n / d rounded to the nearest integer, ties to even: the rounding of the
\* format specifications .2f applied to an exactly represented value.
RoundHalfEven(n, d) ==
    LET q == n \div d
        r == n % d
    IN  IF 2 * r < d THEN q
        ELSE IF 2 * r > d THEN q + 1
        ELSE IF q % 2 = 0 THEN q ELSE q + 1

\* f"{int(x):02}"
Pad2(n) == IF n < 10 THEN "0" \o ToString(n) ELSE ToString(n)

\* f"{size:.2f}" of a size below 1024
Fixed2(v) ==
    LET h == IF v.m = 0 THEN 0
             ELSE IF v.e = 0 THEN v.m * 100
             ELSE IF v.e <= 0 - 3 THEN 0     \* m * 100 < 1024^3 / 2
             ELSE RoundHalfEven(v.m * 100, Pow1024(0 - v.e))
    IN  ToString(h \div 100) \o "." \o Pad2(h % 100)

Units == <<"B", "KB", "MB", "GB", "TB">>

\* for unit in [...]: if size < 1024.0: return f"{size:.2f} {unit}"; size /= 1024.0
\* and, the units exhausted, the function ends without a return: None.
RECURSIVE FormatBytesFrom(_, _)
FormatBytesFrom(v, units) ==
    IF units = <<>> THEN None
    ELSE IF Below1024(v) THEN Some(Fixed2(v) \o " " \o Head(units))
    ELSE FormatBytesFrom([m |-> v.m, e |-> v.e - 1], Tail(units))

format_bytes(size) == FormatBytesFrom(size, Units)

HoursWrappedAt24(h) == h % 24

\* int(hours), as format_time prints it
PrintedHours(h) == h

\* minutes, seconds = divmod(seconds, 60); hours, minutes = divmod(minutes, 60)
format_time(seconds) ==
    LET minutes1 == seconds \div 60
        seconds1 == seconds % 60
        hours == minutes1 \div 60
        minutes2 == minutes1 % 60
    IN  Pad2(PrintedHours(hours)) \o ":" \o Pad2(minutes2) \o ":" \o Pad2(seconds1)

MaxSmallSeconds == 130
Seconds ==
    (0..MaxSmallSeconds) \cup
    {3599, 3600, 3661, 35999, 36000, 86399, 86400, 90061, 359999, 360000, 363661}

\* The reporter alone: one call of a formatting function on any input.
InitFormat ==
    /\ Launch("cli", [chunk |-> "", timeout |-> "", retries |-> ""])
    /\ url = [scheme |-> "http", last |-> "f"]
    /\ dirExists = TRUE
    /\ fileExists = FALSE
    /\ fileData = <<>>
    /\ fs0 = [dir |-> dirExists, file |-> fileExists, data |-> fileData]
    /\ Fresh
    /\ pc = "format"
    /\ \/ fmt_fn = "format_bytes" /\ fmt_arg \in Sizes
       \/ fmt_fn = "format_time" /\ fmt_arg \in Seconds
    /\ fmt_out = None

download == <<inputs, locals, user_input, disk, log, counters, interruptedAt,
              raised, exc, progress>>

FormatBytes ==
    /\ pc = "format"
    /\ fmt_fn = "format_bytes"
    /\ fmt_out' = format_bytes(fmt_arg)
    /\ pc' = "formatted"
    /\ UNCHANGED <<download, fmt_fn, fmt_arg>>

FormatTime ==
    /\ pc = "format"
    /\ fmt_fn = "format_time"
    /\ fmt_out' = Some(format_time(fmt_arg))
    /\ pc' = "formatted"
    /\ UNCHANGED <<download, fmt_fn, fmt_arg>>

NextFormat ==
    \/ FormatBytes
    \/ FormatTime

SpecFormat == InitFormat /\ [][NextFormat]_vars

\* ------------------------------------------------------------ properties
Reported(m) == \E i \in DOMAIN log : log[i].msg = m
Count(m) == Cardinality({i \in DOMAIN log : log[i].msg = m})
Returned == pc = "done"

\* The messages of attempts i..n that all end in the RequestException handler.
RECURSIVE FailureReports(_, _)
FailureReports(i, n) ==
    IF i > n THEN <<>>
    ELSE <<Msg("AttemptFailed", i)>>
         \o (IF i < n THEN <<Msg("Retrying", 0)>> ELSE <<Msg("MaxRetries", 0)>>)
         \o FailureReports(i + 1, n)

\* The call has returned, nobody canceled or interrupted it, nothing fatal
\* happened, and every request that was made ended in a transport error.
C1_EveryAttemptFailed ==
    /\ Returned
    /\ SchemeSupported(url)
    /\ retry_count >= 1
    /\ interruptedAt = ""
    /\ ~Reported("CanceledByUser")
    /\ ~Reported("Error")
    /\ Count("AttemptFailed") = netRequests

\* C1: with retries = N >= 1 and every attempt failing with a transport error,
\* exactly N requests are made, the failures are reported as attempts 1..N in
\* order, a retry (and its 5 second sleep) is announced after each failure but
\* the last, N-1 sleeps are made, the last report is "Max retries reached" and
\* success is never reported.
C1_ExactlyNAttempts ==
    C1_EveryAttemptFailed =>
        /\ netRequests = retry_count
        /\ sleeps = retry_count - 1
        /\ log = FailureReports(1, retry_count)
        /\ ~Reported("Success")

C1_Witness ==
    /\ C1_EveryAttemptFailed
    /\ retry_count = 3
    /\ netRequests = 3
    /\ sleeps = 2
    /\ opens >= 1

C3_InterruptLeavesNoFile ==
    (Returned /\ interruptedAt \in {"connect", "response", "stream"} /\ ~NameIsDirectory) =>
        /\ Reported("Canceled")
        /\ raised = "none"
        /\ ~fileExists

\* C4 as claimed: an interrupt during the backoff sleep ends the call as
\* canceled (the handler's messages are printed, no exception leaves the
\* call) and the file the failed attempt wrote is deleted.
C4_InterruptedSleepIsCancellation ==
    (Returned /\ interruptedAt = "sleep") =>
        /\ Reported("Canceled")
        /\ raised = "none"
        /\ ~fileExists

\* C5 as claimed, for the outcomes it names (completed, canceled, retries
\* exhausted): when the call returns after its last attempt wrote some chunks,
\* the file is either gone or fully written with success reported; after "Max
\* retries reached" no file the call wrote remains.
C5_NoTruncatedFileOnReturn ==
    (Returned /\ opens > 0 /\ downloaded_size > 0 /\ ~Reported("Error")) =>
        /\ ~fileExists \/ (Reported("Success") /\ fileData = body /\ stream = <<>>)
        /\ Reported("MaxRetries") => ~fileExists

\* C6 as claimed: success is reported only if some attempt received a response
\* and consumed its whole body into the file.
C6_SuccessOnlyAfterCompleteAttempt ==
    Reported("Success") =>
        /\ netRequests >= 1
        /\ opens >= 1
        /\ response = "ok"
        /\ stream = <<>>

\* Attempt 1 failed with a transport error and attempt 2 consumed its body.
C7_FailThenSucceed == attempt = 1 /\ Reported("Success")

\* C7: when attempt 1 fails with a transport error and attempt 2 succeeds, the
\* messages are exactly: attempt 1 failed, retrying, success; two requests were
\* made and the call has returned (no third attempt); the file holds exactly
\* the body of attempt 2.
C7_RetryThenSuccessIsClean ==
    C7_FailThenSucceed =>
        /\ Returned
        /\ log = <<Msg("AttemptFailed", 1), Msg("Retrying", 0), Msg("Success", 0)>>
        /\ netRequests = 2
        /\ sleeps = 1
        /\ fileExists
        /\ fileData = body

C7_Witness ==
    /\ C7_FailThenSucceed
    /\ opens = 2
    /\ Len(body) = 1

\* One step of the call, as C8 constrains it.
C8_Step ==
    /\ (pc = "connect" /\ pc' = "open") => downloaded_size' = 0
    /\ (pc = "stream") => downloaded_size' >= downloaded_size
    /\ (pc = "stream" /\ pc' = "stream") =>
        /\ downloaded_size' <= Len(body')
        /\ fileData' = SubSeq(body', 1, downloaded_size')
    /\ (pc = "stream" /\ Reported("Success")') =>
        /\ downloaded_size' = Len(body')
        /\ fileData' = body'

\* C8: downloaded_size is 0 when an attempt starts streaming and never
\* decreases while it streams; after each chunk the file holds the first
\* downloaded_size bytes of the body; when the transfer succeeds downloaded_size
\* equals the body's length and the file is the body, byte for byte.
C8_ProgressCountsTheBody == [][C8_Step]_vars

C8_Witness ==
    /\ Reported("Success")
    /\ chunk_size = 1
    /\ Len(body) = 2
    /\ downloaded_size = 2
    /\ fileData = body

\* C9 as claimed: with a scheme other than http/https the call reports the
\* unsupported scheme once returned, and at no point has it made a request or
\* changed the file system (the download directory is not created).
C9_UnsupportedSchemeTouchesNothing ==
    ~SchemeSupported(url) =>
        /\ dirExists = fs0.dir
        /\ netRequests = 0
        /\ opens = 0
        /\ Returned => log = <<Msg("Unsupported", 0)>>

\* C10 as claimed: with an empty last path segment no overwrite prompt is
\* shown, no request is made and no file is opened for writing.
C10_EmptyNameFailsFast ==
    (SchemeSupported(url) /\ NameIsDirectory) =>
        /\ prompts = 0
        /\ netRequests = 0
        /\ opens = 0

\* C16: the overwrite prompt is shown at most once per call, and only in
\* attempt 1 before any request: while the prompt is up no request has been
\* made, and an attempt that follows a failed attempt goes straight to
\* requests.get.
C16_PromptOnceBeforeFirstRequest ==
    /\ prompts <= 1
    /\ pc = "prompt" => (attempt = 0 /\ netRequests = 0 /\ ~failed_attempt)
    /\ prompts = 1 => (NameIsDirectory \/ fs0.file)

C16_Witness ==
    /\ attempt = 1
    /\ pc = "connect"
    /\ opens = 1
    /\ fileExists
    /\ ~fs0.file
    /\ prompts = 0

\* C19: the destination file is opened only after an attempt bound start_time,
\* that is after a response with a successful status and its headers; as long
\* as no attempt got that far the file system entry of the destination is what
\* it was before the call, so a file the user agreed to overwrite keeps its
\* content when every attempt fails at connect, timeout or HTTP status.
C19_NoOpenBeforeSuccessfulResponse ==
    /\ opens > 0 => start_time_set
    /\ ~start_time_set =>
        /\ opens = 0
        /\ fileExists = fs0.file
        /\ fileData = fs0.data

C19_Witness ==
    /\ Returned
    /\ fs0.file
    /\ user_input = "y"
    /\ netRequests = 3
    /\ Reported("MaxRetries")
    /\ ~start_time_set
    /\ fileData = OldData

TerminalMessages ==
    {"Success", "MaxRetries", "CanceledByUser", "Canceled", "Unsupported", "Error"}

\* C20 as claimed: a call prints at most one of the terminal messages (success,
\* max retries reached, canceled by user, canceled by interrupt, unsupported
\* scheme, error).
C20_AtMostOneTerminalReport ==
    Cardinality({i \in DOMAIN log : log[i].msg \in TerminalMessages}) <= 1

\* C15 as claimed: when a chunk has been written with the total size unknown
\* (content-length absent, total_size 0) or with no time elapsed, the progress
\* computation has not raised: no ZeroDivisionError ended the call.
C15_ProgressSurvivesZeroDivisor ==
    (downloaded_size > 0 /\ (total_size = 0 \/ elapsed_time = Some(0))) =>
        /\ exc # "ZeroDivisionError"
        /\ ~Reported("Error")

\* C17: an OSError from open() or file.write() ends the call at once with the
\* error message as the last message: the attempt it happened in was not
\* counted as failed (the failures and sleeps so far are those of the earlier
\* attempts), no further request follows, and neither success nor "Max retries
\* reached" is printed.
C17_DiskErrorIsFatal ==
    exc \in {"open", "write"} =>
        /\ Returned
        /\ raised = "none"
        /\ log[Len(log)] = Msg("Error", 0)
        /\ Count("Error") = 1
        /\ Count("AttemptFailed") = attempt
        /\ sleeps = attempt
        /\ netRequests = attempt + 1
        /\ ~Reported("Success")
        /\ ~Reported("MaxRetries")

C17_Witness ==
    /\ exc = "write"
    /\ attempt = 1
    /\ fileData # <<>>
    /\ Returned

\* C18 as claimed: the percentage of every progress report is at most 100 and
\* the estimated time is not negative.
C18_PercentageAtMost100 ==
    percentage # None =>
        /\ percentage[1] <= 100 * percentage[2]
        /\ estimated_time[1] >= 0

\* The caller did not supply the parameter: no flag on the command line, an
\* empty or non-numeric line in interactive mode.
Unsupplied(s) == IF caller = "cli" THEN s = "" ELSE ~IsNumeric(s)

\* C11 as claimed: once download_file has passed its parameters on to
\* download_http_file, each parameter the caller did not supply has its
\* default: chunk size 8192, timeout 5, retries 3.
C11_DefaultsForUnsupplied ==
    (SchemeSupported(url) /\ pc \notin {"call", "scheme"} /\ exc # "makedirs") =>
        /\ Unsupplied(typed.chunk) => chunk_size = 8192
        /\ Unsupplied(typed.timeout) => (~IsText(timeout) /\ timeout_duration = 5)
        /\ Unsupplied(typed.retries) => (~IsText(retries) /\ retry_count = 3)

\* The status the process ends with: __main__ and interactive_mode never call
\* sys.exit, so it is 0 unless an exception leaves download_file
\* (KeyboardInterrupt: the interpreter ends with a non-zero status).
exit_status == IF raised = "none" THEN 0 ELSE 130

Completed == Reported("Success") /\ ~Reported("Error")

\* C12 as claimed: when the call has returned the exit status is 0 exactly
\* when the download completed, and a canceled download has a status of its
\* own that is neither 0 nor that of a failure.
C12_ExitStatusTellsOutcome ==
    Returned =>
        /\ exit_status = 0 <=> Completed
        /\ (Reported("Canceled") \/ Reported("CanceledByUser")) => exit_status \notin {0, 1}

\* size < 1024^p for the size m * 1024^e, by the exponents alone (a mantissa
\* is below 1024^2).
SizeBelow(v, p) ==
    IF v.e >= p THEN v.m = 0
    ELSE IF p - v.e >= 2 THEN TRUE
    ELSE v.m < 1024

\* The size m * 1024^e divided by 1024^k, in hundredths, for a quotient below 1024.
ScaledHundredths(v, k) ==
    IF v.m = 0 THEN 0
    ELSE IF v.e >= k THEN v.m * 100
    ELSE RoundHalfEven(v.m * 100, 1024)

\* C13 as claimed: format_bytes returns, for every size, a string: the size
\* divided by 1024 once per preceding unit, with two decimals, and the first
\* unit of B, KB, MB, GB, TB for which that quotient is below 1024; 0 gives
\* "0.00 B", 1536 "1.50 KB", 1073741824 "1.00 GB".
C13_FormatBytesAlwaysFormats ==
    (pc = "formatted" /\ fmt_fn = "format_bytes") =>
        /\ fmt_out # None
        /\ \E k \in 0..4 :
            /\ SizeBelow(fmt_arg, k + 1)
            /\ \A j \in 0..(k - 1) : ~SizeBelow(fmt_arg, j + 1)
            /\ LET h == ScaledHundredths(fmt_arg, k)
               IN  Val(fmt_out) =
                       ToString(h \div 100) \o "." \o (IF h % 100 < 10 THEN "0" ELSE "")
                       \o ToString(h % 100) \o " " \o Units[k + 1]
        /\ fmt_arg = [m |-> 0, e |-> 0] => Val(fmt_out) = "0.00 B"
        /\ fmt_arg = [m |-> 1536, e |-> 0] => Val(fmt_out) = "1.50 KB"
        /\ fmt_arg = [m |-> 1, e |-> 3] => Val(fmt_out) = "1.00 GB"

\* The claim restricted to sizes below 1024^5: what the code does satisfy.
FormatBytesBelowTB ==
    (fmt_fn = "format_bytes" /\ SizeBelow(fmt_arg, 5)) => C13_FormatBytesAlwaysFormats

\* Two decimal digits at least, as the claim words it.
TwoDigits(n) == (IF n < 10 THEN "0" ELSE "") \o ToString(n)

\* C14: for a whole number of seconds s format_time returns HH:MM:SS with
\* HH = s div 3600 (not wrapped), MM = (s div 60) mod 60, SS = s mod 60, each
\* with at least two digits; 3661 gives "01:01:01" and 59 gives "00:00:59".
C14_FormatTimeIsHMS ==
    (pc = "formatted" /\ fmt_fn = "format_time") =>
        /\ Val(fmt_out) = TwoDigits(fmt_arg \div 3600) \o ":"
                          \o TwoDigits((fmt_arg \div 60) % 60) \o ":"
                          \o TwoDigits(fmt_arg % 60)
        /\ fmt_arg = 3661 => Val(fmt_out) = "01:01:01"
        /\ fmt_arg = 59 => Val(fmt_out) = "00:00:59"
        /\ fmt_arg = 90061 => Val(fmt_out) = "25:01:01"
        /\ fmt_arg = 360000 => Val(fmt_out) = "100:00:00"

C14_Witness ==
    /\ pc = "formatted"
    /\ fmt_fn = "format_time"
    /\ fmt_arg = 363661
    /\ fmt_out = Some("101:01:01")

====
